---- MODULE Spec2Model ----
(***************************************************************************)
(* Model of package buckets of the quota service: the BucketContainer, its *)
(* namespaces, the lazy creation of dynamic buckets in FindBucket and the  *)
(* idle eviction done by namespace.watch.  Every goroutine (a FindBucket   *)
(* caller, a watcher) is a process whose steps are the points where it     *)
(* touches shared state: the namespace RWMutex, the buckets map, a         *)
(* bucket's ActivityChannel and Destroy.                                   *)
(***************************************************************************)
EXTENDS Integers, Sequences, FiniteSets, TLC

\* ------------------------------------------------------------------ bounds
\* number of goroutines that call FindBucket
NumCallers == 2
\* number of buckets the FindBucket calls of one run create
MaxLazy == 3
\* the MaxDynamicBuckets of the capped namespaces of the configurations
DynCap == 2
\* number of buckets the FindBucket calls of an eviction run create
IdleLazy == 2
\* number of ticks an eviction run counts for each watcher
TickCount == 3
\* number of buckets the FindBucket calls of a two-client run create
PairLazy == 1

Callers == 1..NumCallers
BucketNames == {"x", "y", "s"}
\* the (namespace, bucketName) pairs FindBucket is called with: every name in
\* the configured namespace "a", one name in the unconfigured namespace "z"
CallArgs == ({"a"} \X BucketNames) \cup {<<"z", "x">>}

\* ------------------------------------------------------- constants of the code
GLOBAL_NAMESPACE == "___GLOBAL___"
DEFAULT_BUCKET_NAME == "___DEFAULT_BUCKET___"

\* a nil Bucket; Bucket instances are numbered from 1 in creation order
NoBucket == 0
\* a nil *configs.BucketConfig
NilCfg == [nil |-> TRUE]
\* a *configs.BucketConfig; MaxIdleMillis is the one field the container reads
BucketConfig(idle) == [MaxIdleMillis |-> idle]
\* a *configs.NamespaceConfig
NamespaceConfig(def, tmpl, max, bks) ==
    [DefaultBucket |-> def, DynamicBucketTemplate |-> tmpl,
     MaxDynamicBuckets |-> max, Buckets |-> bks]
\* a *configs.ServiceConfig
ServiceConfig(glob, nss) == [GlobalDefaultBucket |-> glob, Namespaces |-> nss]

NoBuckets == [n \in {} |-> NilCfg]
OneBucket(name, c) == [n \in {name} |-> c]

\* The configurations the container is built from.  In each, "a" is the one
\* configured namespace and "z" is configured nowhere.
ServiceConfigs ==
    { \* capped dynamic buckets and nothing else
      ServiceConfig(NilCfg,
        [n \in {"a"} |-> NamespaceConfig(NilCfg, BucketConfig(50),
                                         DynCap, NoBuckets)]),
      \* nothing but one static bucket that can idle out
      ServiceConfig(NilCfg,
        [n \in {"a"} |-> NamespaceConfig(NilCfg, NilCfg, 0,
                                         OneBucket("s", BucketConfig(50)))]),
      \* defaults and one static bucket, no template
      ServiceConfig(BucketConfig(50),
        [n \in {"a"} |-> NamespaceConfig(BucketConfig(50), NilCfg, 0,
                                         OneBucket("s", BucketConfig(50)))]),
      \* a static bucket next to a capped template whose buckets never idle out
      ServiceConfig(BucketConfig(50),
        [n \in {"a"} |-> NamespaceConfig(BucketConfig(50), BucketConfig(0),
                                         1, OneBucket("s", BucketConfig(50)))]),
      \* a static bucket next to an uncapped template
      ServiceConfig(NilCfg,
        [n \in {"a"} |-> NamespaceConfig(NilCfg, BucketConfig(50), 0,
                                         OneBucket("s", BucketConfig(0)))]) }

\* The configuration of the eviction runs: a static bucket and a template
\* whose buckets all idle out.
IdleConfigs ==
    { ServiceConfig(NilCfg,
        [n \in {"a"} |-> NamespaceConfig(NilCfg, BucketConfig(50), DynCap,
                                         OneBucket("s", BucketConfig(50)))]) }

VARIABLES
    cfg,            \* BucketContainer.cfg, the ServiceConfig (never written)
    inst,           \* the Buckets the factory built: <<[namespace, bucketName, cfg, dyn]>>
    activity,       \* activity[b]: the ActivityChannel of bucket b holds a value
    destroyed,      \* destroyed[b]: how many times Destroy was called on b
    defaultBucket,  \* BucketContainer.defaultBucket
    namespaces,     \* BucketContainer.namespaces: name -> [defaultBucket, buckets]
    mutex,          \* the RWMutex of each namespace: [w: writer, r: readers]
    watchers,       \* the goroutines running namespace.watch: [ns, bucketName,
                    \* bucket, pc], and as history the ticks it has seen
    pc,             \* where each FindBucket caller is
    args,           \* the (namespace, bucketName) of each caller's call
    bucket,         \* the named result `bucket` of each caller's call
    reported,       \* history: buckets the call reported activity on
    window,         \* history: what happened to the call's name since it began
    since,          \* history: ReportActivity was called on b since its last tick
    idleTick,       \* history: a tick of b's watcher followed a silent interval
    rpc             \* the last gRPC Allow call: its request, the call it made to
                    \* the quota service, what that returned, and its response

vars == <<cfg, inst, activity, destroyed, defaultBucket, namespaces, mutex,
          watchers, pc, args, bucket, reported, window, since, idleTick, rpc>>

\* ------------------------------------------------------- the gRPC endpoint
\* AllowResponse.Status, and the zero value of the Go type
AllowResponse_OK == 1
AllowResponse_OK_WAIT == 2
AllowResponse_REJECTED == 3
AllowResponse_FAILED == 4
StatusZero == 0

\* an optional proto2 field: a nil pointer, or a pointer to v
Unset == [set |-> FALSE, v |-> 0]
Some(v) == [set |-> TRUE, v |-> v]

\* the Reason of a quotaservice.QuotaServiceError: the three the endpoint
\* names, and a Reason that is none of them
ER_NO_SUCH_BUCKET == "ER_NO_SUCH_BUCKET"
ER_REJECTED == "ER_REJECTED"
ER_TIMED_OUT_WAITING == "ER_TIMED_OUT_WAITING"
ErrorReasons == {ER_NO_SUCH_BUCKET, ER_REJECTED, ER_TIMED_OUT_WAITING, "ER_OTHER"}
\* the error g.qs.Allow returns: nil, a QuotaServiceError, or another error
NilErr == [kind |-> "nil"]
QuotaServiceError(reason) == [kind |-> "QuotaServiceError", Reason |-> reason]
OtherError == [kind |-> "error"]
Errors == {NilErr, OtherError} \cup {QuotaServiceError(r) : r \in ErrorReasons}

\* the requests the endpoint is called with; a string field that is unset reads
\* as "" through its getter
AllowRequests ==
    [Namespace : {"", "a"}, Name : {"", "x"},
     NumTokensRequested : {Unset, Some(0), Some(0 - 1), Some(2)},
     MaxWaitMillisOverride : {Unset, Some(5)}]
\* what g.qs.Allow returns: granted, wait (a time.Duration, in nanoseconds), err
QsResults ==
    [granted : {0, 2}, wait : {0, 1, 1000000, 2500000}, err : Errors]

NoCall == [made |-> FALSE]
NoRpc == [req |-> [Namespace |-> "", Name |-> "", NumTokensRequested |-> Unset,
                   MaxWaitMillisOverride |-> Unset],
          qsCall |-> NoCall, qsResult |-> [granted |-> 0, wait |-> 0, err |-> NilErr],
          rsp |-> [Status |-> Unset, NumTokensGranted |-> Unset, WaitMillis |-> Unset],
          returned |-> FALSE]

invalid(req) ==
    \/ req.Name = ""
    \/ req.Namespace = ""
    \/ (req.NumTokensRequested.set /\ req.NumTokensRequested.v = 0)

\* the call Allow makes to the quota service, with the defaults filled in
QsCall(req) ==
    [made |-> TRUE, namespace |-> req.Namespace, name |-> req.Name,
     numTokensRequested |->
         IF req.NumTokensRequested.set THEN req.NumTokensRequested.v ELSE 1,
     maxWaitMillisOverride |->
         IF req.MaxWaitMillisOverride.set THEN req.MaxWaitMillisOverride.v
         ELSE 0 - 1]

\* the status Allow computes from what the quota service returned; a
\* QuotaServiceError whose Reason no case of the switch names leaves the
\* variable at its zero value
StatusOf(res) ==
    IF res.err # NilErr
    THEN IF res.err.kind = "QuotaServiceError"
         THEN IF res.err.Reason \in {ER_NO_SUCH_BUCKET, ER_REJECTED, ER_TIMED_OUT_WAITING}
              THEN AllowResponse_REJECTED
              ELSE StatusZero
         ELSE AllowResponse_FAILED
    ELSE IF res.wait > 0 THEN AllowResponse_OK_WAIT ELSE AllowResponse_OK

\* time.Duration.Nanoseconds: the duration as a count of nanoseconds
Nanoseconds(d) == d

\* the response of Allow for a valid request
Respond(res) ==
    [Status |-> Some(StatusOf(res)),
     NumTokensGranted |-> IF res.err = NilErr THEN Some(res.granted) ELSE Unset,
     WaitMillis |-> IF res.err = NilErr THEN Some(Nanoseconds(res.wait)) ELSE Unset]

\* GrpcEndpoint.Allow(ctx, req), the quota service returning res when called
GrpcAllow(req, res) ==
    /\ rpc' = IF invalid(req)
              THEN [req |-> req, qsCall |-> NoCall, returned |-> TRUE,
                    qsResult |-> NoRpc.qsResult,
                    rsp |-> [Status |-> Some(AllowResponse_FAILED),
                             NumTokensGranted |-> Unset, WaitMillis |-> Unset]]
              ELSE [req |-> req, qsCall |-> QsCall(req), qsResult |-> res,
                    returned |-> TRUE, rsp |-> Respond(res)]
    /\ UNCHANGED <<cfg, inst, activity, destroyed, defaultBucket, namespaces, mutex,
                   watchers, pc, args, bucket, reported, window, since, idleTick>>

GrpcNext == \E req \in AllowRequests, res \in QsResults : GrpcAllow(req, res)

\* ----------------------------------------------------------- the heap
\* The part of the state the bucket-building code works on, as one record, so
\* that NewBucketContainer and FindBucket share createNewNamedBucketFromCfg.
Heap ==
    [inst |-> inst, activity |-> activity, destroyed |-> destroyed,
     namespaces |-> namespaces, watchers |-> watchers, since |-> since,
     idleTick |-> idleTick, reportedOn |-> {}]

\* BucketFactory.NewBucket: a new instance, never nil; result is Len(h.inst)
NewBucket(h, namespace, bucketName, bCfg, dyn) ==
    [h EXCEPT !.inst = Append(@, [namespace |-> namespace, bucketName |-> bucketName,
                                  cfg |-> bCfg, dyn |-> dyn]),
              !.activity = Append(@, FALSE),
              !.destroyed = Append(@, 0),
              !.since = Append(@, FALSE),
              !.idleTick = Append(@, FALSE)]

\* Bucket.Dynamic
Dynamic(h, b) == h.inst[b].dyn

\* (variant: a send on a full channel takes the value out instead)
ReportActivity_Toggle(h, b) ==
    [h EXCEPT !.activity[b] = ~@, !.since[b] = TRUE,
              !.reportedOn = @ \cup {b}]

\* ActivityChannel.ReportActivity: a non-blocking send on a channel of capacity 1
ReportActivity(h, b) ==
    [h EXCEPT !.activity[b] = TRUE, !.since[b] = TRUE,
              !.reportedOn = @ \cup {b}]

\* (variant: the two cases of the select are swapped)
ActivityDetected_Swapped(h, b) == ~h.activity[b]

\* ActivityChannel.ActivityDetected: a non-blocking receive; the result
ActivityDetected(h, b) == h.activity[b]
\* (variant: the channel is looked at and keeps its value)
Received_Peek(h, b) ==
    [h EXCEPT !.idleTick[b] = @ \/ ~h.since[b],
              !.since[b] = FALSE]

\* ... and its effect on the channel
Received(h, b) ==
    [h EXCEPT !.activity[b] = FALSE,
              !.idleTick[b] = @ \/ ~h.since[b],
              !.since[b] = FALSE]

\* namespace.watch up to its loop: returns at once when freq is 0
StartWatch(h, namespace, bucketName, b, freq) ==
    [h EXCEPT !.watchers = Append(@, [ns |-> namespace, bucketName |-> bucketName,
                                      bucket |-> b, ticks |-> 0,
                                      pc |-> IF freq = 0 THEN "returned" ELSE "tick"])]

\* (variant: no activity is reported on the bucket before its watcher starts)
createNewNamedBucketFromCfg_NoReport(h, namespace, bucketName, bCfg, dyn) ==
    LET h1 == NewBucket(h, namespace, bucketName, bCfg, dyn)
        b  == Len(h1.inst)
        h2 == [h1 EXCEPT !.namespaces[namespace].buckets[bucketName] = b]
    IN  StartWatch(h2, namespace, bucketName, b, bCfg.MaxIdleMillis)

createNewNamedBucketFromCfg(h, namespace, bucketName, bCfg, dyn) ==
    LET h1 == NewBucket(h, namespace, bucketName, bCfg, dyn)
        b  == Len(h1.inst)
        h2 == [h1 EXCEPT !.namespaces[namespace].buckets[bucketName] = b]
        h3 == ReportActivity(h2, b)
    IN  StartWatch(h3, namespace, bucketName, b, bCfg.MaxIdleMillis)

countDynamicBuckets(h, namespace) ==
    Cardinality({n \in BucketNames :
                    /\ h.namespaces[namespace].buckets[n] # NoBucket
                    /\ Dynamic(h, h.namespaces[namespace].buckets[n])})

\* (variant: the cap compared with > instead of >=)
CapReached_OffByOne(numDynamicBuckets, maxDynamicBuckets) ==
    numDynamicBuckets > maxDynamicBuckets /\ maxDynamicBuckets > 0

\* the test that refuses one more dynamic bucket
CapReached(numDynamicBuckets, maxDynamicBuckets) ==
    numDynamicBuckets >= maxDynamicBuckets /\ maxDynamicBuckets > 0

\* (variant: dyn is left false for a bucket built from the template)
createNewNamedBucket_NotDyn(h, c, namespace, bucketName) ==
    LET nsCfg == c.Namespaces[namespace]
    IN  IF bucketName \in DOMAIN nsCfg.Buckets
        THEN createNewNamedBucketFromCfg(h, namespace, bucketName,
                                         nsCfg.Buckets[bucketName], FALSE)
        ELSE IF CapReached(countDynamicBuckets(h, namespace), nsCfg.MaxDynamicBuckets)
        THEN h
        ELSE createNewNamedBucketFromCfg(h, namespace, bucketName,
                                         nsCfg.DynamicBucketTemplate, FALSE)

\* (variant: every bucket built lazily is built from the template)
createNewNamedBucket_TemplateOnly(h, c, namespace, bucketName) ==
    LET nsCfg == c.Namespaces[namespace]
    IN  IF CapReached(countDynamicBuckets(h, namespace), nsCfg.MaxDynamicBuckets)
        THEN h
        ELSE createNewNamedBucketFromCfg(h, namespace, bucketName,
                                         nsCfg.DynamicBucketTemplate, TRUE)

\* createNewNamedBucket: the heap after it; the bucket it returns is
\* h'.namespaces[namespace].buckets[bucketName] when created, nil otherwise
createNewNamedBucket(h, c, namespace, bucketName) ==
    LET nsCfg == c.Namespaces[namespace]
    IN  IF bucketName \in DOMAIN nsCfg.Buckets
        THEN createNewNamedBucketFromCfg(h, namespace, bucketName,
                                         nsCfg.Buckets[bucketName], FALSE)
        ELSE IF CapReached(countDynamicBuckets(h, namespace), nsCfg.MaxDynamicBuckets)
        THEN h
        ELSE createNewNamedBucketFromCfg(h, namespace, bucketName,
                                         nsCfg.DynamicBucketTemplate, TRUE)

\* ----------------------------------------------------- NewBucketContainer
RECURSIVE BuildBuckets(_, _, _, _)
\* the loop over nsCfg.Buckets
BuildBuckets(h, c, nsName, todo) ==
    IF todo = {} THEN h
    ELSE LET bucketName == CHOOSE n \in todo : TRUE
         IN  BuildBuckets(
                 createNewNamedBucketFromCfg(h, nsName, bucketName,
                     c.Namespaces[nsName].Buckets[bucketName], FALSE),
                 c, nsName, todo \ {bucketName})

\* (variant: the default is built like a named bucket, watcher included)
BuildDefault_Watched(h, nsName, bCfg) ==
    LET h1 == NewBucket(h, nsName, DEFAULT_BUCKET_NAME, bCfg, FALSE)
        h2 == [h1 EXCEPT !.namespaces[nsName].defaultBucket = Len(h1.inst)]
    IN  StartWatch(ReportActivity(h2, Len(h1.inst)), nsName, DEFAULT_BUCKET_NAME,
                   Len(h1.inst), bCfg.MaxIdleMillis)

\* a namespace default is built by the factory and gets no watcher
BuildDefault(h, nsName, bCfg) ==
    LET h1 == NewBucket(h, nsName, DEFAULT_BUCKET_NAME, bCfg, FALSE)
    IN  [h1 EXCEPT !.namespaces[nsName].defaultBucket = Len(h1.inst)]

RECURSIVE BuildNamespaces(_, _, _)
\* the loop over cfg.Namespaces
BuildNamespaces(h, c, todo) ==
    IF todo = {} THEN h
    ELSE LET nsName == CHOOSE n \in todo : TRUE
             nsCfg == c.Namespaces[nsName]
             h1 == IF nsCfg.DefaultBucket # NilCfg
                   THEN BuildDefault(h, nsName, nsCfg.DefaultBucket)
                   ELSE h
         IN  BuildNamespaces(BuildBuckets(h1, c, nsName, DOMAIN nsCfg.Buckets),
                             c, todo \ {nsName})

EmptyHeap(c) ==
    [inst |-> <<>>, activity |-> <<>>, destroyed |-> <<>>, watchers |-> <<>>,
     since |-> <<>>, idleTick |-> <<>>, reportedOn |-> {},
     namespaces |-> [n \in DOMAIN c.Namespaces |->
                        [defaultBucket |-> NoBucket,
                         buckets |-> [b \in BucketNames |-> NoBucket]]]]

\* the global default is built by the factory and gets no watcher
BuildGlobalDefault(h, c) ==
    IF c.GlobalDefaultBucket # NilCfg
    THEN NewBucket(h, GLOBAL_NAMESPACE, DEFAULT_BUCKET_NAME, c.GlobalDefaultBucket, FALSE)
    ELSE h

\* the heap NewBucketContainer(c, bf) leaves
NewBucketContainer(c) ==
    BuildNamespaces(BuildGlobalDefault(EmptyHeap(c), c), c, DOMAIN c.Namespaces)

\* bc.defaultBucket after NewBucketContainer: the first instance built, if any
GlobalDefaultOf(c) == IF c.GlobalDefaultBucket # NilCfg THEN 1 ELSE NoBucket

NoWindow == [absent |-> FALSE, evicted |-> FALSE, created |-> 0]

\* the state NewBucketContainer leaves for one of the configurations
InitWith(configs) ==
    /\ cfg \in configs
    /\ LET h == NewBucketContainer(cfg)
       IN  /\ inst = h.inst
           /\ activity = h.activity
           /\ destroyed = h.destroyed
           /\ namespaces = h.namespaces
           /\ watchers = h.watchers
           /\ since = h.since
           /\ idleTick = h.idleTick
    /\ defaultBucket = GlobalDefaultOf(cfg)
    /\ mutex = [n \in DOMAIN cfg.Namespaces |-> [w |-> 0, r |-> 0]]
    /\ pc = [t \in Callers |-> "idle"]
    /\ args = [t \in Callers |-> [namespace |-> "z", bucketName |-> "x"]]
    /\ bucket = [t \in Callers |-> NoBucket]
    /\ reported = [t \in Callers |-> {}]
    /\ window = [t \in Callers |-> NoWindow]
    /\ rpc = NoRpc

Init == InitWith(ServiceConfigs)

\* ------------------------------------------------------------ helpers
\* the heap h becomes the state (reportedOn is the log of one step)
Becomes(h) ==
    /\ inst' = h.inst
    /\ activity' = h.activity
    /\ destroyed' = h.destroyed
    /\ namespaces' = h.namespaces
    /\ watchers' = h.watchers
    /\ since' = h.since
    /\ idleTick' = h.idleTick

\* bc.namespaces[namespace] is not nil
Configured(namespace) == namespace \in DOMAIN cfg.Namespaces

\* the statically configured named buckets; NewBucketContainer starts one
\* watcher for each, and every later watcher belongs to a lazily built bucket
StaticBuckets ==
    UNION {{<<n, b>> : b \in DOMAIN cfg.Namespaces[n].Buckets} :
              n \in DOMAIN cfg.Namespaces}

\* the number of buckets built since NewBucketContainer returned
Lazy == Len(watchers) - Cardinality(StaticBuckets)

\* callers inside FindBucket
InFlight == {t \in Callers : pc[t] \notin {"idle", "done"}}

\* sync.RWMutex.  Lock first becomes the one writer of the mutex, which keeps
\* new readers out, and then waits until the readers that are in have left.
\* RLock succeeds while the mutex has no writer, waiting or in.
CanRLock(m) == m.w = 0
\* Lock, first half: there is no other writer
CanLock(m) == m.w = 0
\* Lock, second half: the readers have left
Drained(m) == m.r = 0
\* the writer of a mutex: caller t is t, watcher w is -w
AsCaller(t) == t
AsWatcher(w) == 0 - w

\* history: bucketName was created in / deleted from namespace
NoteCreated(win, a, namespace, bucketName) ==
    IF a.namespace = namespace /\ a.bucketName = bucketName
       /\ win.absent /\ ~win.evicted
    THEN [win EXCEPT !.created = @ + 1] ELSE win
NoteEvicted(win, a, namespace, bucketName) ==
    IF a.namespace = namespace /\ a.bucketName = bucketName /\ win.absent
    THEN [win EXCEPT !.evicted = TRUE, !.created = 0] ELSE win

\* ------------------------------------------------------------ FindBucket
\* a caller enters FindBucket(namespace, bucketName) and looks the namespace up
Call(t, namespace, bucketName) ==
    /\ pc[t] \in {"idle", "done"}
    /\ Lazy + Cardinality(InFlight) < MaxLazy
    /\ args' = [args EXCEPT ![t] = [namespace |-> namespace, bucketName |-> bucketName]]
    /\ reported' = [reported EXCEPT ![t] = {}]
    /\ IF Configured(namespace)
       THEN /\ bucket' = [bucket EXCEPT ![t] = NoBucket]
            /\ pc' = [pc EXCEPT ![t] = "rlock"]
            /\ window' = [window EXCEPT ![t] =
                   [absent |-> namespaces[namespace].buckets[bucketName] = NoBucket,
                    evicted |-> FALSE, created |-> 0]]
       ELSE /\ bucket' = [bucket EXCEPT ![t] = defaultBucket]
            /\ pc' = [pc EXCEPT ![t] = "report"]
            /\ window' = [window EXCEPT ![t] = NoWindow]
    /\ UNCHANGED <<rpc, cfg, inst, activity, destroyed, defaultBucket, namespaces, mutex,
                   watchers, since, idleTick>>

\* ns.RLock()
RLock(t) ==
    /\ pc[t] = "rlock"
    /\ CanRLock(mutex[args[t].namespace])
    /\ mutex' = [mutex EXCEPT ![args[t].namespace].r = @ + 1]
    /\ pc' = [pc EXCEPT ![t] = "read"]
    /\ UNCHANGED <<rpc, cfg, inst, activity, destroyed, defaultBucket, namespaces,
                   watchers, args, bucket, reported, window, since, idleTick>>

\* (variant: the namespace default is tried before the template)
AfterRead_DefaultFirst(found, nsCfg, nsDefault) ==
    IF found # NoBucket THEN <<found, "report">>
    ELSE IF nsDefault # NoBucket THEN <<nsDefault, "report">>
    ELSE IF nsCfg.DynamicBucketTemplate # NilCfg THEN <<NoBucket, "lock">>
    ELSE <<NoBucket, "report">>

\* what the caller does with the bucket it read under the read lock:
\* <<bucket, next pc>>
AfterRead(found, nsCfg, nsDefault) ==
    IF found # NoBucket THEN <<found, "report">>
    ELSE IF nsCfg.DynamicBucketTemplate # NilCfg THEN <<NoBucket, "lock">>
    ELSE <<nsDefault, "report">>

\* bucket = ns.buckets[bucketName]; ns.RUnlock(); and the branch on the result
Read(t) ==
    /\ pc[t] = "read"
    /\ LET ns == args[t].namespace
           r  == AfterRead(namespaces[ns].buckets[args[t].bucketName],
                           cfg.Namespaces[ns], namespaces[ns].defaultBucket)
       IN  /\ bucket' = [bucket EXCEPT ![t] = r[1]]
           /\ pc' = [pc EXCEPT ![t] = r[2]]
           /\ mutex' = [mutex EXCEPT ![ns].r = @ - 1]
    /\ UNCHANGED <<rpc, cfg, inst, activity, destroyed, defaultBucket, namespaces,
                   watchers, args, reported, window, since, idleTick>>

\* ns.Lock(); defer ns.Unlock()
Lock(t) ==
    /\ pc[t] = "lock"
    /\ CanLock(mutex[args[t].namespace])
    /\ mutex' = [mutex EXCEPT ![args[t].namespace].w = AsCaller(t)]
    /\ pc' = [pc EXCEPT ![t] = "create"]
    /\ UNCHANGED <<rpc, cfg, inst, activity, destroyed, defaultBucket, namespaces,
                   watchers, args, bucket, reported, window, since, idleTick>>

\* (variant: no second check once the write lock is held)
Recheck_NoSecondCheck(h, c, namespace, bucketName) ==
    createNewNamedBucket(h, c, namespace, bucketName)

\* the heap after the second check under the write lock
Recheck(h, c, namespace, bucketName) ==
    IF h.namespaces[namespace].buckets[bucketName] # NoBucket
    THEN h
    ELSE createNewNamedBucket(h, c, namespace, bucketName)

\* Lock returns; bucket = ns.buckets[bucketName]; if nil,
\* bucket = bc.createNewNamedBucket(...)
Create(t) ==
    /\ pc[t] = "create"
    /\ Drained(mutex[args[t].namespace])
    /\ LET ns == args[t].namespace
           name == args[t].bucketName
           h == Recheck(Heap, cfg, ns, name)
           isNew == Len(h.inst) > Len(inst)
       IN  /\ Becomes(h)
           /\ bucket' = [bucket EXCEPT ![t] = h.namespaces[ns].buckets[name]]
           /\ reported' = [reported EXCEPT ![t] = h.reportedOn]
           /\ window' = [u \in Callers |->
                            IF isNew THEN NoteCreated(window[u], args[u], ns, name)
                            ELSE window[u]]
    /\ pc' = [pc EXCEPT ![t] = "report"]
    /\ UNCHANGED <<rpc, cfg, defaultBucket, mutex, args>>

\* (variant: activity is reported on named buckets only)
FinalReport_NamedOnly(h, b) ==
    IF b # NoBucket /\ h.inst[b].bucketName # DEFAULT_BUCKET_NAME
    THEN ReportActivity(h, b) ELSE h

\* if bucket != nil { bucket.ReportActivity() }
FinalReport(h, b) == IF b # NoBucket THEN ReportActivity(h, b) ELSE h

Report(t) ==
    /\ pc[t] = "report"
    /\ LET h == FinalReport(Heap, bucket[t])
       IN  /\ Becomes(h)
           /\ reported' = [reported EXCEPT ![t] = @ \cup h.reportedOn]
    /\ pc' = [pc EXCEPT ![t] = "ret"]
    /\ UNCHANGED <<rpc, cfg, defaultBucket, mutex, args, bucket, window>>

\* (variant: the write lock is not released on return)
Return_NoUnlock(t) ==
    /\ pc[t] = "ret"
    /\ pc' = [pc EXCEPT ![t] = "done"]
    /\ UNCHANGED <<rpc, cfg, inst, activity, destroyed, defaultBucket, namespaces,
                   mutex, watchers, args, bucket, reported, window, since, idleTick>>

\* return, running the deferred ns.Unlock() when the write lock was taken
Return(t) ==
    /\ pc[t] = "ret"
    /\ mutex' = [n \in DOMAIN mutex |->
                    IF mutex[n].w = AsCaller(t) THEN [mutex[n] EXCEPT !.w = 0]
                    ELSE mutex[n]]
    /\ pc' = [pc EXCEPT ![t] = "done"]
    /\ UNCHANGED <<rpc, cfg, inst, activity, destroyed, defaultBucket, namespaces,
                   watchers, args, bucket, reported, window, since, idleTick>>

\* the caller uses the bucket FindBucket gave it, which reports activity on it
Use(t) ==
    /\ pc[t] = "done"
    /\ bucket[t] # NoBucket
    /\ Becomes(ReportActivity(Heap, bucket[t]))
    /\ UNCHANGED <<rpc, cfg, defaultBucket, mutex, pc, args, bucket, reported, window>>

\* ------------------------------------------------------- Exists and String
\* bc.namespaces[namespace] != nil && ...: the namespace is looked up
ExistsCall(t, namespace, name) ==
    /\ pc[t] \in {"idle", "done"}
    /\ args' = [args EXCEPT ![t] = [namespace |-> namespace, bucketName |-> name]]
    /\ bucket' = [bucket EXCEPT ![t] = NoBucket]
    /\ reported' = [reported EXCEPT ![t] = {}]
    /\ window' = [window EXCEPT ![t] = NoWindow]
    /\ pc' = [pc EXCEPT ![t] = IF Configured(namespace) THEN "exists" ELSE "done"]
    /\ UNCHANGED <<rpc, cfg, inst, activity, destroyed, defaultBucket, namespaces,
                   mutex, watchers, since, idleTick>>

\* ... bc.namespaces[namespace].buckets[name] != nil: the map is read, with no
\* lock taken
ExistsRead(t) ==
    /\ pc[t] = "exists"
    /\ pc' = [pc EXCEPT ![t] = "done"]
    /\ UNCHANGED <<rpc, cfg, inst, activity, destroyed, defaultBucket, namespaces,
                   mutex, watchers, args, bucket, reported, window, since, idleTick>>

\* String(): the header is written and the namespaces are sorted
StringCall(t) ==
    /\ pc[t] \in {"idle", "done"}
    /\ bucket' = [bucket EXCEPT ![t] = NoBucket]
    /\ reported' = [reported EXCEPT ![t] = {}]
    /\ window' = [window EXCEPT ![t] = NoWindow]
    /\ pc' = [pc EXCEPT ![t] = "string"]
    /\ UNCHANGED <<rpc, cfg, inst, activity, destroyed, defaultBucket, namespaces,
                   mutex, watchers, args, since, idleTick>>

\* len(ns.buckets) and the range over ns.buckets, for every namespace, with no
\* lock taken
StringRead(t) ==
    /\ pc[t] = "string"
    /\ pc' = [pc EXCEPT ![t] = "done"]
    /\ UNCHANGED <<rpc, cfg, inst, activity, destroyed, defaultBucket, namespaces,
                   mutex, watchers, args, bucket, reported, window, since, idleTick>>

\* ------------------------------------------------------- namespace.watch
\* _ = <-t; keepRunning = bucket.ActivityDetected()
\* (the ticks are counted up to K)
Tick(w, K) ==
    /\ w \in DOMAIN watchers
    /\ watchers[w].pc = "tick"
    /\ LET b == watchers[w].bucket
           h == Received(Heap, b)
       IN  Becomes([h EXCEPT !.watchers[w].pc =
                        IF ActivityDetected(Heap, b) THEN "tick" ELSE "lock",
                             !.watchers[w].ticks =
                        IF @ < K THEN @ + 1 ELSE @])
    /\ UNCHANGED <<rpc, cfg, defaultBucket, mutex, pc, args, bucket, reported, window>>

\* (variant: the latch is looked at again under the lock, and a bucket with
\* activity is left in the map)
Deleted_UnlessActive(h, namespace, bucketName) ==
    LET b == h.namespaces[namespace].buckets[bucketName]
    IN  IF b # NoBucket /\ h.activity[b] THEN h
        ELSE [h EXCEPT !.namespaces[namespace].buckets[bucketName] = NoBucket]

\* (variant: the key deleted is the fully qualified name, which is no key)
Deleted_WrongKey(h, namespace, bucketName) == h

\* delete(ns.buckets, bucketName)
Deleted(h, namespace, bucketName) ==
    [h EXCEPT !.namespaces[namespace].buckets[bucketName] = NoBucket]

\* ns.Lock(); defer ns.Unlock()
WatchLock(w) ==
    /\ w \in DOMAIN watchers
    /\ watchers[w].pc = "lock"
    /\ CanLock(mutex[watchers[w].ns])
    /\ mutex' = [mutex EXCEPT ![watchers[w].ns].w = AsWatcher(w)]
    /\ Becomes([Heap EXCEPT !.watchers[w].pc = "delete"])
    /\ UNCHANGED <<rpc, cfg, defaultBucket, pc, args, bucket, reported, window>>

\* Lock returns; delete(ns.buckets, bucketName)
Delete(w) ==
    /\ w \in DOMAIN watchers
    /\ watchers[w].pc = "delete"
    /\ LET ns == watchers[w].ns
           name == watchers[w].bucketName
       IN  /\ Drained(mutex[ns])
           /\ Becomes([Deleted(Heap, ns, name) EXCEPT !.watchers[w].pc = "destroy"])
           /\ window' = [u \in Callers |->
                            IF pc[u] # "idle"
                            THEN NoteEvicted(window[u], args[u], ns, name)
                            ELSE window[u]]
    /\ UNCHANGED <<rpc, cfg, defaultBucket, mutex, pc, args, bucket, reported>>

\* bucket.Destroy()
Destroy(w) ==
    /\ w \in DOMAIN watchers
    /\ watchers[w].pc = "destroy"
    /\ Becomes([Heap EXCEPT !.destroyed[watchers[w].bucket] = @ + 1,
                            !.watchers[w].pc = "unlock"])
    /\ UNCHANGED <<rpc, cfg, defaultBucket, mutex, pc, args, bucket, reported, window>>

\* the deferred ns.Unlock(), and the goroutine ends
Exit(w) ==
    /\ w \in DOMAIN watchers
    /\ watchers[w].pc = "unlock"
    /\ mutex' = [mutex EXCEPT ![watchers[w].ns].w = 0]
    /\ Becomes([Heap EXCEPT !.watchers[w].pc = "exited"])
    /\ UNCHANGED <<rpc, cfg, defaultBucket, pc, args, bucket, reported, window>>

\* ------------------------------------------------------------ the system
\* every watcher a run can start: one per static bucket, one per lazy bucket
WatcherIds == 1..(Cardinality(BucketNames) + MaxLazy)

\* the steps of the callers in C, calling with the arguments in A while fewer
\* than L buckets were built lazily, and of the watchers in W, whose ticks are
\* counted up to K
NextOf(C, A, L, W, K) ==
    \/ \E t \in C, a \in A : Lazy < L /\ Call(t, a[1], a[2])
    \/ \E t \in C : RLock(t)
    \/ \E t \in C : Read(t)
    \/ \E t \in C : Lock(t)
    \/ \E t \in C : Create(t)
    \/ \E t \in C : Report(t)
    \/ \E t \in C : Return(t)
    \/ \E t \in C : Use(t)
    \/ \E w \in W : Tick(w, K)
    \/ \E w \in W : WatchLock(w)
    \/ \E w \in W : Delete(w)
    \/ \E w \in W : Destroy(w)
    \/ \E w \in W : Exit(w)

Next == NextOf(Callers, CallArgs, MaxLazy, WatcherIds, 0)

Spec == Init /\ [][Next]_vars

\* ------------------------------------------------------------ scheduling
\* The Go scheduler runs every runnable goroutine, the ticker of a watcher
\* keeps ticking, and a goroutine blocked in Lock or RLock gets the mutex when
\* it is free again and again (a starved waiter is handed the mutex).  Nothing
\* makes a client call FindBucket or use a bucket again.
FairnessOf(C, W, K) ==
    /\ \A t \in C :
          /\ WF_vars(Read(t) \/ Create(t) \/ Report(t) \/ Return(t))
          /\ SF_vars(RLock(t) \/ Lock(t))
    /\ \A w \in W :
          /\ WF_vars(Tick(w, K) \/ Delete(w) \/ Destroy(w) \/ Exit(w))
          /\ SF_vars(WatchLock(w))

\* the eviction runs: one client goroutine, calling for the static bucket
\* and for one dynamic bucket, next to the watchers
IdleArgs == {<<"a", "s">>, <<"a", "x">>}
IdleWatchers == 1..(1 + IdleLazy)
IdleNext == NextOf({1}, IdleArgs, IdleLazy, IdleWatchers, TickCount)

IdleSpec ==
    /\ InitWith(IdleConfigs)
    /\ [][IdleNext]_vars
    /\ FairnessOf({1}, IdleWatchers, TickCount)

\* two client goroutines calling for the same two names next to the
\* watchers, under the same scheduling
PairWatchers == 1..(1 + PairLazy)
PairNext == NextOf(Callers, IdleArgs, PairLazy, PairWatchers, 0)

PairSpec ==
    /\ InitWith(IdleConfigs)
    /\ [][PairNext]_vars
    /\ FairnessOf(Callers, PairWatchers, 0)

\* a goroutine that dumps the container next to one FindBucket caller and
\* the watchers
RaceNext ==
    \/ NextOf({1}, IdleArgs, IdleLazy, IdleWatchers, 0)
    \/ \E a \in CallArgs : ExistsCall(2, a[1], a[2])
    \/ ExistsRead(2)
    \/ StringCall(2)
    \/ StringRead(2)

RaceSpec == InitWith(IdleConfigs) /\ [][RaceNext]_vars

\* the endpoint in front of a container nobody else calls
GrpcSpec == InitWith(IdleConfigs) /\ [][GrpcNext]_vars

\* ================================================================ claims
\* the buckets map of a configured namespace, and what its entries are
BucketsOf(n) == namespaces[n].buckets
NamesIn(n) == {b \in BucketNames : BucketsOf(n)[b] # NoBucket}
DynamicNamesIn(n) == {b \in NamesIn(n) : inst[BucketsOf(n)[b]].dyn}
Template(n) == cfg.Namespaces[n].DynamicBucketTemplate
MaxDyn(n) == cfg.Namespaces[n].MaxDynamicBuckets
\* a watcher of namespace n has deleted from the map
EvictionIn(n) ==
    \E w \in DOMAIN watchers :
        watchers[w].ns = n /\ watchers[w].pc \in {"destroy", "unlock", "exited"}

\* C1: in every reachable state, a namespace whose MaxDynamicBuckets is
\* positive holds at most MaxDynamicBuckets buckets with Dynamic() true.
C1_DynamicCap ==
    \A n \in DOMAIN namespaces :
        MaxDyn(n) > 0 => Cardinality(DynamicNamesIn(n)) <= MaxDyn(n)

\* C1 witness: the cap is reached, a watcher has evicted a bucket before, and
\* a FindBucket for one more name has come back with nil.
C1_Witness ==
    \E n \in DOMAIN namespaces :
        /\ MaxDyn(n) > 0
        /\ Cardinality(DynamicNamesIn(n)) = MaxDyn(n)
        /\ EvictionIn(n)
        /\ \E t \in Callers :
              /\ pc[t] = "done" /\ args[t].namespace = n
              /\ bucket[t] = NoBucket
              /\ args[t].bucketName \notin NamesIn(n)

\* the calls the uniqueness claim is about: the name was absent from the
\* map when the call began, the namespace has a template, and no watcher has
\* deleted the name since
FreshCall(t) ==
    /\ pc[t] # "idle"
    /\ Configured(args[t].namespace)
    /\ Template(args[t].namespace) # NilCfg
    /\ window[t].absent
    /\ ~window[t].evicted

\* C2: concurrent FindBucket calls for one name that was absent when they
\* began (template present, no eviction of the name meanwhile): NewBucket is
\* invoked at most once for the name, exactly once when a call returns a
\* bucket, and every call that returns a bucket returns that one instance,
\* the one the map holds.
C2_OneInstance ==
    /\ \A t \in Callers :
          FreshCall(t) =>
              /\ window[t].created <= 1
              /\ (pc[t] = "done" /\ bucket[t] # NoBucket) =>
                    /\ window[t].created = 1
                    /\ bucket[t] = BucketsOf(args[t].namespace)[args[t].bucketName]
    /\ \A t, u \in Callers :
          ( /\ FreshCall(t) /\ FreshCall(u)
            /\ args[t] = args[u]
            /\ pc[t] = "done" /\ pc[u] = "done"
            /\ bucket[t] # NoBucket /\ bucket[u] # NoBucket )
          => bucket[t] = bucket[u]

\* C2 witness: two calls for the same absent name have both returned.
C2_Witness ==
    \E t, u \in Callers :
        /\ t # u
        /\ FreshCall(t) /\ FreshCall(u)
        /\ args[t] = args[u]
        /\ pc[t] = "done" /\ pc[u] = "done"
        /\ bucket[t] # NoBucket /\ bucket[u] = bucket[t]
        /\ window[t].created = 1 /\ window[u].created = 1

\* what one step of caller t may do to its result, by the cascade
CascadeStep(t) ==
    LET ns == args[t].namespace
        name == args[t].bucketName
        found == BucketsOf(ns)[name]
    IN  \* (1) not configured: the global default, nil if none
        /\ (pc[t] \in {"idle", "done"} /\ pc'[t] \notin {"idle", "done"}) =>
              IF args'[t].namespace \in DOMAIN cfg.Namespaces
              THEN pc'[t] = "rlock"
              ELSE pc'[t] = "report" /\ bucket'[t] = defaultBucket
        /\ (pc[t] = "rlock" /\ pc'[t] # "rlock") => pc'[t] = "read"
        \* (2) the map holds the name; (4) no template: the namespace default
        /\ (pc[t] = "read" /\ pc'[t] # "read") =>
              IF found # NoBucket
              THEN pc'[t] = "report" /\ bucket'[t] = found
              ELSE IF Template(ns) # NilCfg
              THEN pc'[t] = "lock"
              ELSE pc'[t] = "report" /\ bucket'[t] = namespaces[ns].defaultBucket
        /\ (pc[t] = "lock" /\ pc'[t] # "lock") => pc'[t] = "create"
        \* (3) a template: the bucket another call created meanwhile, a new
        \* bucket, or nil with the cap reached; never the namespace default
        /\ (pc[t] = "create" /\ pc'[t] # "create") =>
              /\ pc'[t] = "report"
              /\ IF found # NoBucket
                 THEN bucket'[t] = found /\ inst' = inst
                 ELSE \/ /\ bucket'[t] = NoBucket
                         /\ MaxDyn(ns) > 0
                         /\ Cardinality(DynamicNamesIn(ns)) >= MaxDyn(ns)
                         /\ inst' = inst
                      \/ /\ bucket'[t] = Len(inst) + 1
                         /\ Len(inst') = Len(inst) + 1
                         /\ namespaces'[ns].buckets[name] = bucket'[t]
                         /\ bucket'[t] # namespaces[ns].defaultBucket
        \* the resolved bucket is the one returned
        /\ (pc[t] = "report" /\ pc'[t] # "report") =>
              pc'[t] = "ret" /\ bucket'[t] = bucket[t]
        /\ (pc[t] = "ret" /\ pc'[t] # "ret") =>
              pc'[t] = "done" /\ bucket'[t] = bucket[t]

CapScenario(n) ==
    /\ MaxDyn(n) > 0
    /\ Template(n) # NilCfg
    /\ DOMAIN cfg.Namespaces[n].Buckets = {}
    /\ ~EvictionIn(n)

C4_State ==
    \A n \in DOMAIN namespaces :
        CapScenario(n) =>
            /\ Cardinality(NamesIn(n)) <= MaxDyn(n)
            /\ \A b, c \in NamesIn(n) : BucketsOf(n)[b] = BucketsOf(n)[c] => b = c
            /\ \A t \in Callers :
                  (pc[t] = "done" /\ args[t].namespace = n) =>
                      IF bucket[t] = NoBucket
                      THEN /\ Cardinality(NamesIn(n)) = MaxDyn(n)
                           /\ args[t].bucketName \notin NamesIn(n)
                      ELSE /\ inst[bucket[t]].dyn
                           /\ BucketsOf(n)[args[t].bucketName] = bucket[t]

C4_Step ==
    \A t \in Callers :
        (pc[t] = "create" /\ pc'[t] = "report" /\ bucket'[t] = NoBucket) =>
            namespaces' = namespaces /\ inst' = inst

\* C4: with MaxDynamicBuckets = M > 0, a template, no static buckets and no
\* eviction: FindBucket for new names returns distinct dynamic buckets until
\* the map holds M, a FindBucket for one more new name returns nil, and that
\* call leaves the map as it was.
C4_CapScenario == []C4_State /\ [][C4_Step]_vars

\* C4 witness: M dynamic buckets are in the map and a call for one more name
\* has returned nil.
C4_Witness ==
    \E n \in DOMAIN namespaces :
        /\ CapScenario(n)
        /\ Cardinality(DynamicNamesIn(n)) = MaxDyn(n)
        /\ \E t \in Callers :
              /\ pc[t] = "done" /\ args[t].namespace = n
              /\ bucket[t] = NoBucket

\* bucket b is a named bucket whose watcher ticks (MaxIdleMillis > 0)
Watched(b) ==
    /\ b \in DOMAIN inst
    /\ inst[b].bucketName # DEFAULT_BUCKET_NAME
    /\ inst[b].cfg.MaxIdleMillis > 0
\* bucket b is out of its namespace map and was destroyed exactly once
Gone(b) ==
    /\ namespaces[inst[b].namespace].buckets[inst[b].bucketName] # b
    /\ destroyed[b] = 1
\* a step in which activity is reported on the existing bucket b
ActivityOn(b) == b \in DOMAIN activity /\ ~activity[b] /\ activity'[b]

\* C5: for every named bucket with MaxIdleMillis > 0, under fair scheduling:
\* unless activity keeps being reported on it, the bucket is eventually out
\* of its namespace map for good, with Destroy called on it exactly once.
C5_IdleEviction ==
    \A b \in IdleWatchers :
        []<><<ActivityOn(b)>>_vars \/ <>[](Watched(b) => Gone(b))

\* C5 witness: a static and a dynamic watched bucket are both gone.
C5_Witness ==
    \E b, c \in DOMAIN inst :
        /\ Watched(b) /\ Gone(b) /\ inst[b].dyn
        /\ Watched(c) /\ Gone(c) /\ ~inst[c].dyn

\* the watcher of bucket b
WatcherOf(b) == CHOOSE w \in DOMAIN watchers : watchers[w].bucket = b

\* C6: a named bucket with MaxIdleMillis > 0 on which activity was reported
\* in every interval between two ticks of its watcher, and between its
\* creation and the first tick, is in its namespace map and not destroyed.
C6_KeptAlive ==
    \A b \in DOMAIN inst :
        (Watched(b) /\ ~idleTick[b]) =>
            /\ namespaces[inst[b].namespace].buckets[inst[b].bucketName] = b
            /\ destroyed[b] = 0

\* C6 witness: a bucket has lived through two ticks and another bucket was
\* evicted meanwhile.
C6_Witness ==
    \E b, c \in DOMAIN inst :
        /\ Watched(b) /\ ~idleTick[b]
        /\ watchers[WatcherOf(b)].ticks >= 2
        /\ watchers[WatcherOf(b)].pc = "tick"
        /\ Watched(c) /\ Gone(c)

\* the default buckets: the factory built them under DEFAULT_BUCKET_NAME
IsDefault(b) == inst[b].bucketName = DEFAULT_BUCKET_NAME
\* the watchers of bucket b that are still running
LiveWatchers(b) ==
    {w \in DOMAIN watchers :
        watchers[w].bucket = b /\ watchers[w].pc \notin {"returned", "exited"}}
\* bucket b is the value of its name in its namespace map
InMap(b) ==
    /\ inst[b].namespace \in DOMAIN namespaces
    /\ inst[b].bucketName \in BucketNames
    /\ namespaces[inst[b].namespace].buckets[inst[b].bucketName] = b

\* C7: the global default and the namespace defaults the configuration
\* defines exist from NewBucketContainer on, stay the same instances, have no
\* watcher and are never destroyed, whatever their MaxIdleMillis.
C7_DefaultsStay ==
    /\ (cfg.GlobalDefaultBucket # NilCfg) <=> (defaultBucket # NoBucket)
    /\ defaultBucket # NoBucket =>
          /\ defaultBucket = 1
          /\ inst[defaultBucket] =
                [namespace |-> GLOBAL_NAMESPACE, bucketName |-> DEFAULT_BUCKET_NAME,
                 cfg |-> cfg.GlobalDefaultBucket, dyn |-> FALSE]
    /\ \A n \in DOMAIN namespaces :
          LET d == namespaces[n].defaultBucket
          IN  /\ (cfg.Namespaces[n].DefaultBucket # NilCfg) <=> (d # NoBucket)
              /\ d # NoBucket =>
                    /\ d <= 2
                    /\ inst[d] =
                          [namespace |-> n, bucketName |-> DEFAULT_BUCKET_NAME,
                           cfg |-> cfg.Namespaces[n].DefaultBucket, dyn |-> FALSE]
    /\ \A b \in DOMAIN inst :
          IsDefault(b) =>
              /\ destroyed[b] = 0
              /\ \A w \in DOMAIN watchers : watchers[w].bucket # b
              /\ ~InMap(b)

\* C7 witness: both defaults idle out on paper (MaxIdleMillis > 0), the
\* static bucket next to them was evicted, the global default saw no activity
\* at all and the namespace default was handed out.
C7_Witness ==
    /\ defaultBucket # NoBucket
    /\ inst[defaultBucket].cfg.MaxIdleMillis > 0
    /\ ~activity[defaultBucket]
    /\ \E n \in DOMAIN namespaces :
          /\ namespaces[n].defaultBucket # NoBucket
          /\ inst[namespaces[n].defaultBucket].cfg.MaxIdleMillis > 0
          /\ \E t \in Callers :
                pc[t] = "done" /\ bucket[t] = namespaces[n].defaultBucket
    /\ \E c \in DOMAIN inst : Watched(c) /\ Gone(c)

C8_State ==
    \A b \in DOMAIN inst :
        /\ Cardinality(LiveWatchers(b)) <= 1
        /\ destroyed[b] <= 1
        /\ destroyed[b] = 1 =>
              /\ ~InMap(b)
              /\ \E w \in DOMAIN watchers :
                    watchers[w].bucket = b /\ watchers[w].pc \in {"unlock", "exited"}

C8_Step ==
    \A b \in DOMAIN inst :
        destroyed'[b] # destroyed[b] =>
            /\ ~InMap(b)
            /\ \E w \in DOMAIN watchers :
                  /\ watchers[w].bucket = b
                  /\ watchers[w].pc = "destroy"
                  /\ watchers'[w].pc = "unlock"

\* C8: a bucket instance has at most one live watcher, Destroy is called on
\* it at most once, and the call is made by its watcher after the watcher
\* has removed the bucket's name from the map.
C8_OneWatcherOneDestroy == []C8_State /\ [][C8_Step]_vars

\* C8 witness: a bucket was destroyed by its watcher, which has exited, and a
\* bucket built later under the same name is in the map with its own watcher.
C8_Witness ==
    \E b, c \in DOMAIN inst :
        /\ b # c
        /\ inst[b].namespace = inst[c].namespace
        /\ inst[b].bucketName = inst[c].bucketName
        /\ destroyed[b] = 1 /\ LiveWatchers(b) = {}
        /\ InMap(c) /\ Cardinality(LiveWatchers(c)) = 1

\* C9: no FindBucket call returns a bucket on which Destroy has been called.
C9_NoDestroyedReturn ==
    \A t \in Callers :
        pc[t] = "ret" => (bucket[t] = NoBucket \/ destroyed[bucket[t]] = 0)

\* C10: a FindBucket call that returns a bucket has reported activity on that
\* bucket and on no other, after resolving it and before returning; a call
\* that returns nil has reported activity on no bucket.
C10_ReportsOnResult ==
    \A t \in Callers :
        /\ pc[t] \in {"rlock", "read", "lock", "create"} => reported[t] = {}
        /\ pc[t] = "report" => reported[t] \subseteq {bucket[t]} \ {NoBucket}
        /\ pc[t] \in {"ret", "done"} => reported[t] = {bucket[t]} \ {NoBucket}

\* C10 witness: one call has returned a default bucket, another one nil.
C10_Witness ==
    \E t, u \in Callers :
        /\ pc[t] = "done" /\ bucket[t] # NoBucket /\ IsDefault(bucket[t])
        /\ reported[t] = {bucket[t]}
        /\ pc[u] = "done" /\ bucket[u] = NoBucket /\ reported[u] = {}

\* the latch of a bucket is set exactly when ReportActivity was called on it
\* since the last ActivityDetected (or since it was built); a caller about to
\* call ReportActivity can do so at once, whatever the latch holds
C11_State ==
    /\ \A b \in DOMAIN inst : activity[b] <=> since[b]
    /\ \A t \in Callers :
          /\ pc[t] = "report" => ENABLED Report(t)
          /\ (pc[t] = "done" /\ bucket[t] # NoBucket) => ENABLED Use(t)

\* a tick's ActivityDetected returns true exactly when ReportActivity was
\* called since the last one, and leaves the latch empty; a ReportActivity on
\* a set latch leaves it set
C11_Step ==
    /\ \A w \in DOMAIN watchers :
          LET b == watchers[w].bucket
          IN  /\ (watchers[w].pc = "tick" /\ watchers'[w].pc = "lock") =>
                    ~since[b] /\ ~activity'[b]
              /\ (watchers[w].pc = "tick" /\ since[b] /\ ~since'[b]) =>
                    watchers'[w].pc = "tick" /\ ~activity'[b]
    /\ \A b \in DOMAIN inst :
          (activity[b] /\ since'[b]) => activity'[b]

\* C11: after one or more ReportActivity calls on an ActivityChannel, by one
\* goroutine or several, with no ActivityDetected in between, the next
\* ActivityDetected returns true, and the one after it, with no ReportActivity
\* in between, returns false; ReportActivity never blocks, set latch or not.
C11_Latch == []C11_State /\ [][C11_Step]_vars

\* C11 witness: two callers have reported on one bucket, its watcher's
\* ActivityDetected then returned true and emptied the latch, while for another
\* bucket ActivityDetected returned false and a report came after that.
C11_Witness ==
    \E b, c \in DOMAIN inst :
        /\ Watched(b) /\ ~since[b] /\ ~activity[b]
        /\ watchers[WatcherOf(b)].pc = "tick"
        /\ \E t, u \in Callers : t # u /\ reported[t] = {b} /\ reported[u] = {b}
        /\ Watched(c) /\ watchers[WatcherOf(c)].pc = "lock" /\ activity[c]

\* the names namespace n configures statically
StaticNames(n) == DOMAIN cfg.Namespaces[n].Buckets
\* bucket b was built by a FindBucket call, not by NewBucketContainer
LazilyBuilt(b) ==
    \E w \in DOMAIN watchers :
        watchers[w].bucket = b /\ w > Cardinality(StaticBuckets)
\* caller t has returned from a call for a static name of a configured
\* namespace that a watcher had removed from the map before the call began
StaticEvictedCall(t) ==
    /\ pc[t] = "done"
    /\ Configured(args[t].namespace)
    /\ args[t].bucketName \in StaticNames(args[t].namespace)
    /\ window[t].absent
\* bucket b is a static bucket of the name caller t asked for
StaticFor(t, b) ==
    inst[b] = [namespace |-> args[t].namespace, bucketName |-> args[t].bucketName,
               cfg |-> cfg.Namespaces[args[t].namespace].Buckets[args[t].bucketName],
               dyn |-> FALSE]

\* C12: after a static named bucket was idle-evicted no FindBucket re-creates
\* it as a static bucket: a FindBucket for the name returns the namespace
\* default (or nil) without a template, and with a template a dynamic bucket
\* built from the template, or nil when the cap is reached.
C12_NoStaticRecreation ==
    \A t \in Callers :
        StaticEvictedCall(t) =>
            LET n == args[t].namespace
            IN  IF Template(n) = NilCfg
                THEN bucket[t] = namespaces[n].defaultBucket
                ELSE \/ bucket[t] = NoBucket
                     \/ /\ inst[bucket[t]].dyn
                        /\ inst[bucket[t]].cfg = Template(n)

\* C12 as amended: after a static named bucket was idle-evicted, a FindBucket
\* for the name returns the namespace default (or nil) without a template; with
\* a template it returns a bucket re-created as a static bucket, by this call or
\* by a concurrent one: built after NewBucketContainer from the name's static
\* BucketConfig with Dynamic() false, never nil, whatever the dynamic cap.
C12_StaticRecreated ==
    \A t \in Callers :
        StaticEvictedCall(t) =>
            LET n == args[t].namespace
            IN  IF Template(n) = NilCfg
                THEN bucket[t] = namespaces[n].defaultBucket
                ELSE /\ bucket[t] # NoBucket
                     /\ LazilyBuilt(bucket[t])
                     /\ StaticFor(t, bucket[t])

\* C12 witness: with the dynamic cap reached, a call for the evicted static
\* name has returned a re-created static bucket, which the map holds.
C12_Witness ==
    \E t \in Callers :
        /\ StaticEvictedCall(t)
        /\ Template(args[t].namespace) # NilCfg
        /\ MaxDyn(args[t].namespace) > 0
        /\ Cardinality(DynamicNamesIn(args[t].namespace)) = MaxDyn(args[t].namespace)
        /\ bucket[t] # NoBucket /\ ~inst[bucket[t]].dyn
        /\ InMap(bucket[t])

\* C13: FindBucket re-creates static buckets that were invalidated: the next
\* FindBucket for a static name that was idle-evicted returns a new bucket
\* built from the name's static BucketConfig with dynamic=false.
C13_AlwaysRecreated ==
    \A t \in Callers :
        StaticEvictedCall(t) =>
            /\ bucket[t] # NoBucket
            /\ LazilyBuilt(bucket[t])
            /\ StaticFor(t, bucket[t])

\* the status of the last response
StatusNow == rpc.rsp.Status.v
\* the last request is malformed as the interface defines it
Malformed ==
    \/ rpc.req.Namespace = ""
    \/ rpc.req.Name = ""
    \/ rpc.req.NumTokensRequested = Some(0)

\* C14: the status of every Allow response is one of OK, OK_WAIT, REJECTED,
\* FAILED: FAILED without a call to the quota service for an empty namespace
\* or name or an explicit num_tokens_requested of 0; otherwise REJECTED for an
\* error tagged NO_SUCH_BUCKET, REJECTED or TIMED_OUT_WAITING, FAILED for every
\* other error, OK_WAIT for no error and wait > 0, OK for no error and wait 0.
C14_Status ==
    rpc.returned =>
        /\ rpc.rsp.Status.set
        /\ StatusNow \in {AllowResponse_OK, AllowResponse_OK_WAIT,
                          AllowResponse_REJECTED, AllowResponse_FAILED}
        /\ IF Malformed
           THEN StatusNow = AllowResponse_FAILED /\ ~rpc.qsCall.made
           ELSE /\ rpc.qsCall.made
                /\ LET err == rpc.qsResult.err
                       wait == rpc.qsResult.wait
                   IN  IF err \in {QuotaServiceError(ER_NO_SUCH_BUCKET),
                                   QuotaServiceError(ER_REJECTED),
                                   QuotaServiceError(ER_TIMED_OUT_WAITING)}
                       THEN StatusNow = AllowResponse_REJECTED
                       ELSE IF err # NilErr
                       THEN StatusNow = AllowResponse_FAILED
                       ELSE /\ wait > 0 => StatusNow = AllowResponse_OK_WAIT
                            /\ wait = 0 => StatusNow = AllowResponse_OK

\* a count of nanoseconds (not negative) in whole milliseconds
InMillis(d) == d \div 1000000

\* C15: wait_millis and num_tokens_granted are populated only when the status
\* is OK or OK_WAIT, and wait_millis is then the wait the quota service
\* returned expressed in milliseconds (d nanoseconds are emitted as
\* d / 1,000,000).
C15_WaitMillis ==
    rpc.returned =>
        LET ok == rpc.rsp.Status.set
                  /\ StatusNow \in {AllowResponse_OK, AllowResponse_OK_WAIT}
        IN  /\ rpc.rsp.WaitMillis.set => ok
            /\ rpc.rsp.NumTokensGranted.set => ok
            /\ ok => /\ rpc.rsp.WaitMillis = Some(InMillis(rpc.qsResult.wait))
                     /\ rpc.rsp.NumTokensGranted = Some(rpc.qsResult.granted)

\* the namespace lock of bucket b is free
LockFree(n) == mutex[n].w = 0 /\ mutex[n].r = 0
\* no Destroy and no ReportActivity on a named bucket is made in this step
\* with the lock of the bucket's namespace taken
C16_Step ==
    \A b \in DOMAIN destroyed :
        inst[b].namespace \in DOMAIN mutex =>
            /\ destroyed'[b] # destroyed[b] => LockFree(inst[b].namespace)
            /\ (\E t \in Callers : pc[t] = "report" /\ pc'[t] = "ret" /\ bucket[t] = b)
                   => mutex[inst[b].namespace].w = 0

\* C16: the watcher deletes the bucket under the namespace write lock,
\* releases the lock and only then calls Destroy: no Destroy, and no other
\* call into a bucket, runs while the namespace lock is held.
C16_NoCallUnderLock == [][C16_Step]_vars

\* task t is about to read the buckets map of namespace n
ReadsMap(t, n) ==
    \/ pc[t] \in {"read", "exists"} /\ args[t].namespace = n
    \/ pc[t] = "string"
\* caller t holds the write lock of n and is about to read and write its map
CallerWritesMap(t, n) ==
    pc[t] = "create" /\ args[t].namespace = n /\ Drained(mutex[n])
\* watcher w holds the write lock of n and is about to delete from its map
WatcherWritesMap(w, n) ==
    watchers[w].pc = "delete" /\ watchers[w].ns = n /\ Drained(mutex[n])

\* C17: every access to a namespace's buckets map is lock-protected: a task
\* reads it holding the read or the write lock and writes it holding the write
\* lock, so no write is concurrent with another access (Exists and String
\* included).
C17_LockProtected ==
    \A n \in DOMAIN namespaces :
        /\ \A t \in Callers :
              ReadsMap(t, n) => (pc[t] = "read" /\ mutex[n].r > 0)
        /\ \A t \in Callers : CallerWritesMap(t, n) => mutex[n].w = AsCaller(t)
        /\ \A w \in DOMAIN watchers :
              WatcherWritesMap(w, n) =>
                  /\ mutex[n].w = AsWatcher(w)
                  /\ \A t \in Callers : ~ReadsMap(t, n) /\ ~CallerWritesMap(t, n)

\* watcher w has seen a tick without activity and has not finished evicting
Evicting(w) ==
    w \in DOMAIN watchers /\ watchers[w].pc \in {"lock", "delete", "destroy", "unlock"}

\* a watcher that has seen ActivityDetected return false only moves on towards
\* its exit, whatever is reported on the bucket; and a call that finds the
\* name missing under the write lock, the cap not standing in the way, builds
\* a new instance
C18_Step ==
    /\ \A w \in DOMAIN watchers :
          /\ watchers[w].pc = "lock" => watchers'[w].pc \in {"lock", "delete"}
          /\ watchers[w].pc = "delete" => watchers'[w].pc \in {"delete", "destroy"}
          /\ watchers[w].pc = "destroy" => watchers'[w].pc \in {"destroy", "unlock"}
    /\ \A t \in Callers :
          LET n == args[t].namespace
              name == args[t].bucketName
          IN  ( /\ pc[t] = "create" /\ pc'[t] = "report"
                /\ BucketsOf(n)[name] = NoBucket
                /\ ~(MaxDyn(n) > 0 /\ Cardinality(DynamicNamesIn(n)) >= MaxDyn(n)) )
              => /\ bucket'[t] = Len(inst) + 1
                 /\ Len(inst') = Len(inst) + 1
                 /\ namespaces'[n].buckets[name] = bucket'[t]
                 /\ destroyed'[bucket'[t]] = 0

\* a call that began after the removal and returned a bucket returned one
\* built since, which no watcher has evicted
C18_State ==
    \A t \in Callers :
        (FreshCall(t) /\ pc[t] = "done" /\ bucket[t] # NoBucket) =>
            /\ window[t].created = 1
            /\ InMap(bucket[t])
            /\ \A e \in DOMAIN inst :
                  (destroyed[e] > 0 \/ (Watched(e) /\ ~InMap(e))) => e # bucket[t]

\* C18: once a tick's ActivityDetected has returned false for a bucket, the
\* bucket is removed from the map and destroyed, whatever activity arrives
\* before the watcher has the write lock; and the first FindBucket for the
\* name after the removal (template present, cap not reached) creates and
\* returns a new instance, distinct from the evicted one.
C18_EvictedAnyway ==
    /\ \A w \in IdleWatchers :
          (w \in DOMAIN watchers /\ watchers[w].pc = "lock")
              ~> (w \in DOMAIN watchers /\ Gone(watchers[w].bucket))
    /\ [][C18_Step]_vars
    /\ []C18_State

\* C18 witness: a bucket on which activity arrived after its last tick is
\* gone, and a call for its name that began after the removal has returned a
\* new instance.
C18_Witness ==
    \E e \in DOMAIN inst, t \in Callers :
        /\ Watched(e) /\ Gone(e) /\ activity[e]
        /\ watchers[WatcherOf(e)].pc = "exited"
        /\ FreshCall(t) /\ pc[t] = "done"
        /\ args[t] = [namespace |-> inst[e].namespace, bucketName |-> inst[e].bucketName]
        /\ bucket[t] # NoBucket /\ bucket[t] # e

\* caller t is inside FindBucket
Calling(t) == pc[t] \notin {"idle", "done"}
\* a task that waits for a namespace lock it cannot have now
CallerBlocked(t) ==
    \/ pc[t] = "rlock" /\ ~CanRLock(mutex[args[t].namespace])
    \/ pc[t] = "lock" /\ ~CanLock(mutex[args[t].namespace])
    \/ pc[t] = "create" /\ ~Drained(mutex[args[t].namespace])
WatcherBlocked(w) ==
    \/ watchers[w].pc = "lock" /\ ~CanLock(mutex[watchers[w].ns])
    \/ watchers[w].pc = "delete" /\ ~Drained(mutex[watchers[w].ns])
\* the tasks that are inside FindBucket or evicting
Busy ==
    {<<"caller", t>> : t \in {u \in Callers : Calling(u)}}
        \cup {<<"watcher", w>> : w \in {v \in DOMAIN watchers : Evicting(v)}}
BlockedTasks ==
    {<<"caller", t>> : t \in {u \in Callers : Calling(u) /\ CallerBlocked(u)}}
        \cup {<<"watcher", w>> :
                 w \in {v \in DOMAIN watchers : Evicting(v) /\ WatcherBlocked(v)}}

\* some busy task can take a step, and the locks are held by the tasks that
\* are between taking and releasing them and by nobody else
C19_State ==
    /\ Busy # {} => BlockedTasks # Busy
    /\ \A n \in DOMAIN mutex :
          /\ mutex[n].r =
                Cardinality({t \in Callers : pc[t] = "read" /\ args[t].namespace = n})
          /\ mutex[n].w > 0 =>
                /\ mutex[n].w \in Callers
                /\ pc[mutex[n].w] \in {"create", "report", "ret"}
                /\ args[mutex[n].w].namespace = n
          /\ mutex[n].w < 0 =>
                /\ (0 - mutex[n].w) \in DOMAIN watchers
                /\ watchers[0 - mutex[n].w].pc \in {"delete", "destroy", "unlock"}
                /\ watchers[0 - mutex[n].w].ns = n

\* C19: the locking protocol is deadlock-free: under fair scheduling every
\* FindBucket call returns and every watcher that has decided to evict
\* completes the eviction; in no state are all tasks blocked on a namespace
\* lock, and a task that has returned or exited holds no lock.
C19_DeadlockFree ==
    /\ \A t \in Callers : Calling(t) ~> (pc[t] = "done")
    /\ \A w \in PairWatchers :
          Evicting(w) ~> (w \in DOMAIN watchers /\ watchers[w].pc = "exited")
    /\ []C19_State

\* C19 witness: an evicting watcher is the writer of the mutex and waits for a
\* reader to leave, while one caller waits for the write lock and the other
\* is the reader.
C19_Witness ==
    \E t, u \in Callers, w \in DOMAIN watchers :
        /\ t # u
        /\ pc[t] = "lock" /\ CallerBlocked(t)
        /\ mutex[args[t].namespace].w = AsWatcher(w)
        /\ Evicting(w) /\ WatcherBlocked(w)
        /\ pc[u] = "read" /\ args[u].namespace = args[t].namespace

\* a watcher that has seen no tick yet finds the latch set, and a watcher past
\* its loop has seen two ticks or more, the last after a silent interval
C20_State ==
    \A w \in DOMAIN watchers :
        LET b == watchers[w].bucket
        IN  /\ (watchers[w].pc = "tick" /\ watchers[w].ticks = 0) => activity[b]
            /\ (Evicting(w) \/ watchers[w].pc = "exited") =>
                  /\ watchers[w].ticks >= 2
                  /\ idleTick[b]
            /\ ~InMap(b) => (Evicting(w) \/ watchers[w].pc = "exited")

\* the tick that ends the loop is not the first one and follows an interval
\* without ReportActivity; the first tick keeps the watcher in its loop
C20_Step ==
    \A w \in DOMAIN watchers :
        LET b == watchers[w].bucket
        IN  /\ (watchers[w].pc = "tick" /\ watchers'[w].pc = "lock") =>
                  watchers[w].ticks >= 1 /\ ~since[b]
            /\ (watchers[w].ticks = 0 /\ watchers'[w].ticks = 1) =>
                  watchers'[w].pc = "tick"

\* C20: a newly created named bucket with MaxIdleMillis > 0, static or lazily
\* created, has its latch set before its watcher starts: it is never evicted
\* at the first tick, and the second tick is the earliest that removes it,
\* and only when no activity was reported since the first.
C20_NotAtFirstTick == []C20_State /\ [][C20_Step]_vars

\* C20 witness: a static bucket and a lazily created one were each removed at
\* the second tick of their watchers.
C20_Witness ==
    \E v, w \in DOMAIN watchers :
        /\ ~inst[watchers[v].bucket].dyn /\ inst[watchers[w].bucket].dyn
        /\ watchers[v].pc = "exited" /\ watchers[w].pc = "exited"
        /\ Gone(watchers[v].bucket) /\ Gone(watchers[w].bucket)
        /\ watchers[v].ticks = 2 /\ watchers[w].ticks = 2

====
